---- MODULE Spec2Model ----
(***************************************************************************)
(* henzai daemon: generation lifecycle (SendMessageStreaming and its       *)
(* background_streaming worker, StopGeneration) and RAG reconfiguration    *)
(* (SetRagEnabled, _apply_rag_change, _check_pending_service_restart) of   *)
(* henzai-daemon/henzai/dbus_service.py, with the streaming decoder of     *)
(* henzai-daemon/henzai/llm.py.                                            *)
(*                                                                         *)
(* Threads: the GLib main loop (D-Bus method handlers and GLib.idle_add    *)
(* callbacks, one at a time), one worker thread per generation, and one    *)
(* threading.Timer thread per armed debounce timer.  Shared attributes are *)
(* read and written without a lock (except _service_restarting), so every  *)
(* read or write of a shared attribute by a worker is its own step.        *)
(***************************************************************************)
EXTENDS Integers, Sequences, FiniteSets, TLC

\* ---------------------------------------------------------------- bounds
MaxGen == 2        \* generations started under Spec
MaxLines == 2      \* lines read from one backend stream
MaxReq == 2        \* SetRagEnabled calls under Spec
MaxStop == 1       \* StopGeneration calls
MaxGenMT == 1      \* generations started under SpecMT
MaxReqMT == 2      \* SetRagEnabled calls under SpecMT
MaxTimers == 3     \* threading.Timer objects created
MaxReqTimers == 4  \* SetRagEnabled calls under SpecTimers
MaxIdx == 2        \* SetRAGConfig / ReindexRAG calls under SpecIdx
MaxStream == 3     \* lines of the stream one streaming call decodes

\* ---------------------------------------------------------------- names
None == 0          \* Python None for ids and object references
MainT == -1        \* the GLib main-loop thread
RpcT == -2         \* a second thread running D-Bus handlers (SpecMT only)

Timers == 1..MaxTimers
Threads == {MainT, RpcT} \cup Timers
Gens == 1..(IF MaxGen > MaxGenMT THEN MaxGen ELSE MaxGenMT)

ErrText == "I encountered an error"
ErrChunk == "Error"

ValidModes == {"augment", "strict", "hybrid"}
ModeInputs == {"strict", "bogus"}
Messages == {"2+2?"}

\* What the environment does in one run: which threads run D-Bus handlers and
\* how many calls of each kind arrive.
Profile(ctl, gens, reqs, stops, lines) ==
    [ctl |-> ctl, maxGen |-> gens, maxReq |-> reqs, maxStop |-> stops,
     maxLines |-> lines, clock |-> "steady",
     modes |-> ModeInputs, ens |-> BOOLEAN, dbs |-> BOOLEAN,
     results |-> {"ok", "fail", "raise"}, maxIdx |-> 0]
\* The same run on a machine whose wall clock can be set back between calls.
Stepped(p) == [p EXCEPT !.clock = "stepped"]
Profiles == {Profile({MainT}, MaxGen, 0, MaxStop, 1),
             Profile({MainT}, 1, 0, MaxStop, MaxLines),
             Profile({MainT}, 0, MaxReq, 0, 0),
             Profile({MainT}, MaxGen, 1, 0, 0),
             Profile({MainT}, 1, MaxReq, 0, 0)}
ProfilesMT == {Profile({MainT, RpcT}, MaxGenMT, MaxReqMT, 0, 0),
               Profile({MainT, RpcT}, MaxGenMT, 0, MaxStop, 1)}

VARIABLES
    cfg,          \* which threads take D-Bus calls, and the run's budgets
    cur,          \* _current_generation_id
    stop,         \* _stop_generation
    status,       \* status
    restarting,   \* _service_restarting (under _service_restart_lock)
    pending,      \* _pending_rag_change
    timerRef,     \* _rag_mode_change_timer
    ragMode,      \* _rag_mode
    ragEnabled,   \* llm.rag_enabled
    llmReq,       \* llm._current_request (the generation whose response it is)
    conn,         \* per generation: state of its HTTP response
    wk,           \* per generation: the worker thread
    th,           \* per control thread: position and locals
    nextId,       \* the clock generation ids are taken from
    idleq,        \* callbacks queued with GLib.idle_add, FIFO
    signals,      \* D-Bus signals emitted so far
    store,        \* memory.add_conversation calls so far
    restartLog,   \* _restart_ramalama_service invocations so far
    reqs,         \* SetRagEnabled calls so far, with their outcome
    stops,        \* StopGeneration calls so far: what was current, and how far it was
    window,       \* a SetRagEnabled call arrived less than the debounce delay ago
    idx,          \* _rag_indexing_active, the indexing threads, the calls so far
    dec           \* one call of generate_response_streaming, taken by itself

vars == <<cfg, cur, stop, status, restarting, pending, timerRef, ragMode,
          ragEnabled, llmReq, conn, wk, th, nextId, idleq, signals, store,
          restartLog, reqs, stops, window, idx, dec>>

genVars == <<cur, stop, status, llmReq, conn, wk, nextId, idleq, signals, store, stops>>
ragVars == <<restarting, pending, timerRef, ragMode, ragEnabled, restartLog, reqs, window>>

\* ------------------------------------------------------------- decoder
\* One line of the backend's SSE stream, as iter_lines yields it.
\* r / c: the delta's reasoning_content / content: "absent", "null" or a text.
Line(kind, r, c) == [kind |-> kind, r |-> r, c |-> c]
Blank == Line("blank", "absent", "absent")
DoneLine == Line("done", "absent", "absent")
BadJson == Line("bad", "absent", "absent")
Payload(r, c) == Line("payload", r, c)

\* A null field counts as a fragment.
IsPresent(f) == f # "absent"

IsText(f) == f \notin {"absent", "null"}

\* The callbacks one line triggers, in call order (reasoning first).
Callbacks(line) ==
    IF line.kind # "payload" THEN <<>>
    ELSE (IF IsText(line.r) THEN <<[k |-> "think", text |-> line.r]>> ELSE <<>>)
         \o (IF IsText(line.c) THEN <<[k |-> "chunk", text |-> line.c]>> ELSE <<>>)

\* Reasoning fragments are accumulated with the content.
ContentAndReasoningOf(line) ==
    IF line.kind # "payload" THEN ""
    ELSE (IF IsText(line.r) THEN line.r ELSE "") \o (IF IsText(line.c) THEN line.c ELSE "")

\* What one line adds to full_response.
ContentOf(line) ==
    IF line.kind = "payload" /\ IsText(line.c) THEN line.c ELSE ""

\* Lines a backend stream delivers before its end in the system specifications.
SysLines == {Payload("absent", "a"), Payload("absent", "b"),
             Payload("r", "absent"), BadJson}

\* A data: line whose payload is valid JSON of a shape the extraction of
\* lines 592-615 raises on (a number, null, a null delta): the error is not a
\* JSONDecodeError, so it leaves the loop.
NotObject == Line("notobject", "absent", "absent")
\* A line that does not start with "data: ".
OtherLine == Line("other", "absent", "absent")
\* A JSON object without choices, or whose first choice has no delta.
NoDelta == Line("nodelta", "absent", "absent")

\* A payload whose content is the empty string.
EmptyContent == Payload("absent", "")

Fields == {"absent", "null"}
DecLines == {Blank, OtherLine, DoneLine, BadJson, NotObject, NoDelta}
            \cup {Payload(r, c) : r \in Fields \cup {"r"}, c \in Fields \cup {"a", "b"}}
            \cup {EmptyContent}

\* How the body ends after its last line: the server ends it, the response
\* was closed (ChunkedEncodingError), or the transport fails otherwise.
Endings == {"eof", "closed", "error"}

\* Lines 602-620: the callbacks one line triggers when chunk_callback (cc)
\* and reasoning_callback (rc) are supplied or not.
CallbacksTo(line, cc, rc) ==
    SelectSeq(Callbacks(line), LAMBDA x : IF x.k = "think" THEN rc ELSE cc)

\* Line 570: the state of the loop before the first line.
LoopStart == [pc |-> "loop", full |-> "", cbs |-> <<>>, n |-> 0]

\* The terminal marker is passed over like a blank line.
DecodeLinePastMarker(st, line, cc, rc) ==
    IF st.pc # "loop" THEN st
    ELSE IF line.kind = "notobject" THEN [st EXCEPT !.pc = "raised", !.n = @ + 1]
    ELSE [st EXCEPT !.full = @ \o ContentOf(line),
                    !.cbs = @ \o CallbacksTo(line, cc, rc),
                    !.n = @ + 1]

\* Lines 573-626: one iteration of the loop over iter_lines.
DecodeLine(st, line, cc, rc) ==
    IF st.pc # "loop" THEN st
    ELSE IF line.kind = "done" THEN [st EXCEPT !.pc = "break", !.n = @ + 1]
    ELSE IF line.kind = "notobject" THEN [st EXCEPT !.pc = "raised", !.n = @ + 1]
    ELSE [st EXCEPT !.full = @ \o ContentOf(line),
                    !.cbs = @ \o CallbacksTo(line, cc, rc),
                    !.n = @ + 1]

RECURSIVE DecodeLines(_, _, _, _)
DecodeLines(st, lines, cc, rc) ==
    IF lines = <<>> THEN st
    ELSE DecodeLines(DecodeLine(st, Head(lines), cc, rc), Tail(lines), cc, rc)

\* _call_ramalama_api_streaming, lines 570-648: the loop over the stream,
\* then return full_response (lines 628-630, 640-644) or raise (645-648).
CallRamalamaApiStreaming(lines, ending, cc, rc) ==
    LET st == DecodeLines(LoopStart, lines, cc, rc)
        raises == st.pc = "raised" \/ (st.pc = "loop" /\ ending = "error")
    IN [out |-> IF raises THEN "raise" ELSE "return",
        value |-> IF raises THEN "" ELSE st.full,
        cbs |-> st.cbs, n |-> st.n]

\* generate_response_streaming, lines 494-505: the value the caller gets.
GenerateResponseStreaming(res) ==
    IF res.out = "raise" THEN ErrText ELSE res.value

\* ------------------------------------------------------------- records
NoResult == [out |-> "none", value |-> "", cbs |-> <<>>, n |-> 0]
NoCall == [pc |-> "off", lines |-> <<>>, ending |-> "eof", cc |-> TRUE, rc |-> TRUE,
           res |-> NoResult, ret |-> ""]
NoChange == [en |-> FALSE, mode |-> "none", req |-> None]
\* An indexing thread: its position, rag_was_enabled (line 988) as it
\* captured it, and how index_documents ended.
IdxThreads == 1..MaxIdx
NoIdxThread == [pc |-> "unused", was |-> FALSE, res |-> "none"]
\* __init__, lines 46-47: no indexing is active; no call has been made.
NoIndexing == [active |-> FALSE, was |-> FALSE, thr |-> [k \in IdxThreads |-> NoIdxThread],
               calls |-> <<>>]

IdleThread == [pc |-> "idle", en |-> FALSE, mode |-> "none", req |-> None,
               origin |-> "none", g |-> None]
NoWorker == [pc |-> "none", id |-> None, alone |-> FALSE, msg |-> "", full |-> "",
             deltas |-> <<>>,
             cbs |-> <<>>, n |-> 0, how |-> "none", made |-> <<>>]

Sig(name, g, text) == [sig |-> name, g |-> g, text |-> text]
Idle(k, g, text) == [k |-> k, g |-> g, text |-> text]

SetOutcome(r, o) == [reqs EXCEPT ![r].outcome = o]
SetPath(r, p, o) == [reqs EXCEPT ![r].path = p, ![r].outcome = o]

Init ==
    /\ cfg \in Profiles
    /\ cur = None
    /\ stop = FALSE
    /\ status = "ready"
    /\ restarting = FALSE
    /\ pending = NoChange
    /\ timerRef = None
    /\ ragMode = "augment"
    /\ ragEnabled = FALSE
    /\ llmReq = None
    /\ conn = [g \in Gens |-> "none"]
    /\ wk = [g \in Gens |-> NoWorker]
    /\ th = [t \in Threads |-> IF t \in Timers
                               THEN [IdleThread EXCEPT !.pc = "unused"]
                               ELSE IdleThread]
    /\ nextId = 1
    /\ idleq = <<>>
    /\ signals = <<>>
    /\ store = <<>>
    /\ restartLog = <<>>
    /\ reqs = <<>>
    /\ stops = <<>>
    /\ window = FALSE
    /\ idx = NoIndexing
    /\ dec = NoCall

\* ------------------------------------------------ generation: main thread
MainIdle == th[MainT].pc = "idle"

\* What time.time() can return to call number nextId, in microseconds.  A
\* clock that only advances gives every call a later reading than the call
\* before (the readings are numbered by the calls); a wall clock that was set
\* back can give a reading an earlier call already had.
ClockReadings == IF cfg.clock = "steady" THEN {nextId} ELSE 1..nextId

\* SendMessageStreaming, line 772: f"gen_{int(time.time() * 1000000)}".
GenerationId(t) == t

\* The worker of the latest call that was given this id.
WorkerOf(id) ==
    CHOOSE g \in Gens : wk[g].id = id /\ \A h \in Gens : wk[h].id = id => h <= g

\* An id still registered is kept.
KeepRegistered(old, new) == IF old = None THEN new ELSE old

\* SendMessageStreaming, line 773: _current_generation_id = generation_id.
RegisterId(old, new) == new

\* SendMessageStreaming, lines 771-774: make the id from the clock reading t,
\* register it.
SendMessageStreamingBegin(msg, t) ==
    /\ MainIdle
    /\ nextId <= cfg.maxGen
    /\ t \in ClockReadings
    /\ cur' = RegisterId(cur, GenerationId(t))
    /\ nextId' = nextId + 1
    /\ wk' = [wk EXCEPT ![nextId].msg = msg, ![nextId].id = GenerationId(t),
                        ![nextId].alone = \A h \in Gens : wk[h].pc \in {"none", "done"}]
    /\ th' = [th EXCEPT ![MainT].pc = "sms", ![MainT].g = GenerationId(t)]
    /\ UNCHANGED <<cfg, dec, idx, stop, status, llmReq, conn, idleq, signals, store, stops>>
    /\ UNCHANGED ragVars

\* SendMessageStreaming, lines 893-898: start the worker, return the id.
SendMessageStreamingReturn ==
    /\ th[MainT].pc = "sms"
    /\ wk' = [wk EXCEPT ![nextId - 1].pc = "new"]
    /\ th' = [th EXCEPT ![MainT] = IdleThread]
    /\ UNCHANGED <<cfg, dec, idx, cur, stop, status, llmReq, conn, nextId, idleq, signals,
                   store, stops>>
    /\ UNCHANGED ragVars

\* LLMClient.stop_current_generation, lines 652-660: close the response
\* _current_request names, if any; closeOk: the close did not raise.
StopCurrentGeneration(c, closeOk) ==
    IF llmReq # None /\ closeOk THEN [c EXCEPT ![llmReq] = "closed"] ELSE c

\* The reference is cleared only when the close went through.
RequestAfterFailedClose(old, closeOk) == IF closeOk THEN None ELSE old

\* LLMClient.stop_current_generation, lines 661-663: the finally block.
RequestAfterStop(old, closeOk) == None

\* StopGeneration, lines 900-911.
StopGeneration(closeOk) ==
    /\ MainIdle
    /\ Len(stops) < cfg.maxStop
    /\ llmReq = None => closeOk
    /\ stops' = Append(stops, [g |-> cur, latest |-> nextId - 1,
                                pc |-> IF cur = None THEN "none" ELSE wk[WorkerOf(cur)].pc,
                                n |-> IF cur = None THEN 0 ELSE wk[WorkerOf(cur)].n,
                                running |-> \E g \in Gens : wk[g].pc \notin {"none", "done"},
                                req |-> llmReq, closeOk |-> closeOk])
    /\ stop' = TRUE
    /\ conn' = StopCurrentGeneration(conn, closeOk)
    /\ llmReq' = RequestAfterStop(llmReq, closeOk)
    /\ status' = "ready"
    /\ UNCHANGED <<cfg, dec, idx, cur, wk, th, nextId, idleq, signals, store>>
    /\ UNCHANGED ragVars

\* ------------------------------------------------ generation: worker thread
\* The worker leaves the stop flag as it finds it.
StopFlagKept(old) == old

\* background_streaming, line 781: _stop_generation = False.
StopFlagAtStart(old) == FALSE

\* background_streaming, lines 779-786.
WorkerBegin(g) ==
    /\ wk[g].pc = "new"
    /\ status' = "thinking"
    /\ stop' = StopFlagAtStart(stop)
    /\ wk' = [wk EXCEPT ![g].pc = "connect"]
    /\ UNCHANGED <<cfg, dec, idx, cur, llmReq, conn, th, nextId, idleq, signals, store, stops>>
    /\ UNCHANGED ragVars

\* _call_ramalama_api_streaming, lines 547-565: requests.post returns a 200
\* response (ok), or fails: the handlers of lines 632-648 clear
\* _current_request and generate_response_streaming (lines 503-505) returns
\* the error text instead of raising.
WorkerConnect(g, ok) ==
    /\ wk[g].pc = "connect"
    /\ IF ok
       THEN /\ llmReq' = g
            /\ conn' = [conn EXCEPT ![g] = "open"]
            /\ wk' = [wk EXCEPT ![g].pc = "read"]
       ELSE /\ llmReq' = None
            /\ conn' = conn
            /\ wk' = [wk EXCEPT ![g].pc = "post", ![g].full = ErrText,
                                ![g].how = "refused"]
    /\ UNCHANGED <<cfg, dec, idx, cur, stop, status, th, nextId, idleq, signals, store, stops>>
    /\ UNCHANGED ragVars

AfterCallback(w) ==
    [w EXCEPT !.cbs = Tail(w.cbs),
              !.pc = IF Tail(w.cbs) = <<>> THEN "read" ELSE "cb"]

\* _call_ramalama_api_streaming, lines 573-626: one line of the stream that
\* is not the end marker.  Lines already buffered are still yielded after the
\* response was closed.
WorkerReadLine(g, line) ==
    /\ wk[g].pc = "read"
    /\ wk[g].n < cfg.maxLines
    /\ wk' = [wk EXCEPT ![g].n = @ + 1,
                        ![g].full = @ \o ContentOf(line),
                        ![g].deltas = IF line.kind = "payload" /\ IsText(line.c)
                                      THEN Append(@, line.c) ELSE @,
                        ![g].cbs = Callbacks(line),
                        ![g].made = @ \o Callbacks(line),
                        ![g].pc = IF Callbacks(line) = <<>> THEN "read" ELSE "cb"]
    /\ UNCHANGED <<cfg, dec, idx, cur, stop, status, llmReq, conn, th, nextId, idleq, signals,
                   store, stops>>
    /\ UNCHANGED ragVars

\* chunk_handler / reasoning_handler, lines 790-792 and 805-807: the check.
Stale(g) == stop \/ cur # wk[g].id

WorkerHandler(g) ==
    /\ wk[g].pc = "cb"
    /\ wk' = [wk EXCEPT ![g] = IF Stale(g) THEN AfterCallback(@)
                                 ELSE [@ EXCEPT !.pc = "emit"]]
    /\ UNCHANGED <<cfg, dec, idx, cur, stop, status, llmReq, conn, th, nextId, idleq, signals,
                   store, stops>>
    /\ UNCHANGED ragVars

\* chunk_handler / reasoning_handler, lines 801 and 816: GLib.idle_add(emit).
WorkerEmit(g) ==
    /\ wk[g].pc = "emit"
    /\ idleq' = Append(idleq, Idle(Head(wk[g].cbs).k, wk[g].id, Head(wk[g].cbs).text))
    /\ wk' = [wk EXCEPT ![g] = AfterCallback(@)]
    /\ UNCHANGED <<cfg, dec, idx, cur, stop, status, llmReq, conn, th, nextId, signals, store, stops>>
    /\ UNCHANGED ragVars

\* _call_ramalama_api_streaming, lines 583-584 and 628-648: the stream ends.
\* how = "end": the [DONE] marker, the end of the body, or a
\* ChunkedEncodingError after the response was closed: full_response is
\* returned.  how = "error": any other exception: it is re-raised and
\* generate_response_streaming returns the error text.  Every path clears
\* _current_request.
WorkerStreamEnd(g, how) ==
    /\ wk[g].pc = "read"
    /\ llmReq' = None
    /\ wk' = [wk EXCEPT ![g].pc = "post", ![g].how = how,
                        ![g].full = IF how = "error" THEN ErrText ELSE @]
    /\ UNCHANGED <<cfg, dec, idx, cur, stop, status, conn, th, nextId, idleq, signals, store, stops>>
    /\ UNCHANGED ragVars

\* background_streaming, lines 828 and 849: the stopped-or-superseded check,
\* then memory.add_conversation, which raises when its own rollback fails
\* (memory.py lines 122-124).
WorkerCheckFinal(g, saved) ==
    /\ wk[g].pc = "post"
    /\ IF Stale(g)
       THEN /\ wk' = [wk EXCEPT ![g].pc = "finStopped"]
            /\ store' = store
       ELSE /\ store' = Append(store, [g |-> g, msg |-> wk[g].msg,
                                       resp |-> wk[g].full, ok |-> saved])
            /\ wk' = [wk EXCEPT ![g].pc = IF saved THEN "finOk" ELSE "finErr"]
    /\ UNCHANGED <<cfg, dec, idx, cur, stop, status, llmReq, conn, th, nextId, idleq, signals, stops>>
    /\ UNCHANGED ragVars

\* What the completion paths store in _current_generation_id (lines 830, 851).
ClearGenerationId(g) == None

\* The stopped path returns without queuing the completion.
WorkerFinishStoppedSilent(g) ==
    /\ wk[g].pc = "finStopped"
    /\ cur' = ClearGenerationId(g)
    /\ status' = "ready"
    /\ wk' = [wk EXCEPT ![g].pc = "done"]
    /\ UNCHANGED <<cfg, dec, idx, stop, llmReq, conn, th, nextId, idleq, signals, store, stops>>
    /\ UNCHANGED ragVars

\* background_streaming, lines 829-843: stopped or superseded.
WorkerFinishStopped(g) ==
    /\ wk[g].pc = "finStopped"
    /\ cur' = ClearGenerationId(g)
    /\ status' = "ready"
    /\ idleq' = Append(idleq, Idle("complete", wk[g].id, ""))
    /\ wk' = [wk EXCEPT ![g].pc = "done"]
    /\ UNCHANGED <<cfg, dec, idx, stop, llmReq, conn, th, nextId, signals, store, stops>>
    /\ UNCHANGED ragVars

\* background_streaming, lines 851-865: completed.
WorkerFinishOk(g) ==
    /\ wk[g].pc = "finOk"
    /\ cur' = ClearGenerationId(g)
    /\ status' = "ready"
    /\ idleq' = Append(idleq, Idle("complete", wk[g].id, ""))
    /\ wk' = [wk EXCEPT ![g].pc = "done"]
    /\ UNCHANGED <<cfg, dec, idx, stop, llmReq, conn, th, nextId, signals, store, stops>>
    /\ UNCHANGED ragVars

\* The completion is queued before the error message.
WorkerFinishErrorCompleteFirst(g) ==
    /\ wk[g].pc = "finErr"
    /\ idleq' = idleq \o <<Idle("complete", wk[g].id, ""), Idle("error", wk[g].id, ErrChunk)>>
    /\ status' = "ready"
    /\ wk' = [wk EXCEPT ![g].pc = "done"]
    /\ UNCHANGED <<cfg, dec, idx, cur, stop, llmReq, conn, th, nextId, signals, store, stops>>
    /\ UNCHANGED ragVars

\* background_streaming, lines 867-891: the except path.
WorkerFinishError(g) ==
    /\ wk[g].pc = "finErr"
    /\ idleq' = idleq \o <<Idle("error", wk[g].id, ErrChunk), Idle("complete", wk[g].id, "")>>
    /\ status' = "ready"
    /\ wk' = [wk EXCEPT ![g].pc = "done"]
    /\ UNCHANGED <<cfg, dec, idx, cur, stop, llmReq, conn, th, nextId, signals, store, stops>>
    /\ UNCHANGED ragVars

\* ------------------------------------------------ reconfiguration
\* The mode is taken as given.
AcceptAnyMode(m) == m

\* SetRagEnabled, lines 1211-1214.
ValidateMode(m) == IF m \in ValidModes THEN m ELSE "augment"

\* Timer.cancel(): a timer that has not fired yet never runs its function.
CancelTimer(t, ref) ==
    IF ref # None /\ t[ref].pc \in {"armed", "due"}
    THEN [t EXCEPT ![ref].pc = "cancelled"] ELSE t

\* Where a thread goes when its handler or timer function returns.
Finished(t) == IF t \in Timers THEN "done" ELSE "idle"
Return(t) == IF t \in Timers THEN [th[t] EXCEPT !.pc = "done"] ELSE IdleThread

\* Enabling is accepted whether or not a database exists.
NeverRejected(enabled, db) == FALSE

\* SetRagEnabled, lines 1216-1224: enabling without a RAG database.
NoDatabase(enabled, db) == enabled /\ ~db

\* SetRagEnabled, lines 1202-1224: the gate check under the lock, the mode
\* validation and the database check.  db: the RAG database exists.
SetRagEnabledEnter(t, enabled, mode, db) ==
    /\ t \in cfg.ctl
    /\ th[t].pc = "idle"
    /\ Len(reqs) < cfg.maxReq
    /\ mode \in cfg.modes /\ enabled \in cfg.ens /\ db \in cfg.dbs
    /\ LET r == Len(reqs) + 1
           out == IF restarting THEN "in_progress"
                  ELSE IF NoDatabase(enabled, db) THEN "no_db" ELSE "running"
       IN /\ reqs' = Append(reqs, [en |-> enabled, mode |-> ValidateMode(mode),
                                   given |-> mode, db |-> db,
                                   outcome |-> out, path |-> "none",
                                   inWindow |-> window, active |-> cur,
                                   live |-> cur # None /\ wk[WorkerOf(cur)].pc # "done"])
          /\ th' = IF out = "running"
                   THEN [th EXCEPT ![t] = [pc |-> "sreB", en |-> enabled,
                                           mode |-> ValidateMode(mode), req |-> r,
                                           origin |-> "direct", g |-> None]]
                   ELSE th
    /\ window' = TRUE
    /\ UNCHANGED <<cfg, dec, idx, restarting, pending, timerRef, ragMode, ragEnabled, restartLog>>
    /\ UNCHANGED genVars

\* SetRagEnabled, lines 1230-1233: _pending_rag_change = {...}.
StorePending(old, new) == new

\* SetRagEnabled, lines 1226-1250: defer while a generation is active;
\* either way cancel the armed timer.
SetRagEnabledDefer(t) ==
    /\ th[t].pc = "sreB"
    /\ timerRef' = None
    /\ IF cur # None
       THEN /\ pending' = StorePending(pending, [en |-> th[t].en, mode |-> th[t].mode,
                                                  req |-> th[t].req])
            /\ reqs' = SetPath(th[t].req, "deferred", "scheduled")
            /\ th' = [CancelTimer(th, timerRef) EXCEPT ![t] = Return(t)]
       ELSE /\ pending' = pending
            /\ reqs' = reqs
            /\ th' = [CancelTimer(th, timerRef) EXCEPT ![t].pc = "sreC"]
    /\ UNCHANGED <<cfg, dec, idx, restarting, ragMode, ragEnabled, restartLog, window>>
    /\ UNCHANGED genVars

\* Every call is debounced, whether or not a restart is running.
DebounceAlways == TRUE

\* SetRagEnabled, line 1253: is this call debounced?
RestartPending == restarting

\* SetRagEnabled, lines 1252-1268: debounce when a restart is running, else
\* apply now.
SetRagEnabledDebounce(t) ==
    /\ th[t].pc = "sreC"
    /\ IF RestartPending
       THEN \E i \in Timers :
              /\ th[i].pc = "unused"
              /\ \A j \in Timers : th[j].pc = "unused" => i <= j
              /\ timerRef' = i
              /\ reqs' = SetPath(th[t].req, "debounced", "scheduled")
              /\ th' = [th EXCEPT ![t] = Return(t),
                                  ![i] = [th[t] EXCEPT !.pc = "armed", !.origin = "timer"]]
       ELSE /\ timerRef' = timerRef
            /\ reqs' = SetPath(th[t].req, "direct", "running")
            /\ th' = [th EXCEPT ![t].pc = "apply"]
    /\ UNCHANGED <<cfg, dec, idx, restarting, pending, ragMode, ragEnabled, restartLog, window>>
    /\ UNCHANGED genVars

\* The gate is taken without looking at _service_restarting.
GateAlwaysFree == TRUE

\* _apply_rag_change, lines 1288-1295: may this caller take the gate?
GateFree == ~restarting

\* The mode is stored before the gate is looked at.
ModeStoredFirst(old, new) == new

\* _apply_rag_change, lines 1288-1299: _rag_mode after an attempt that found
\* the gate held; the store of line 1299 comes after the return of line 1291.
ModeWhenBusy(old, new) == old

\* _apply_rag_change, lines 1288-1308: take the gate or fail fast; store the
\* mode; invoke _restart_ramalama_service.
ApplyBegin(t) ==
    /\ th[t].pc = "apply"
    /\ IF GateFree
       THEN /\ restarting' = TRUE
            /\ ragMode' = th[t].mode
            /\ restartLog' = Append(restartLog,
                   [en |-> th[t].en, mode |-> th[t].mode, req |-> th[t].req,
                    origin |-> th[t].origin, by |-> t, at |-> Len(signals),
                    wasEn |-> ragEnabled, wasMode |-> ragMode])
            /\ th' = [th EXCEPT ![t].pc = "restart"]
            /\ reqs' = reqs
       ELSE /\ UNCHANGED <<restarting, restartLog>>
            /\ ragMode' = ModeWhenBusy(ragMode, th[t].mode)
            /\ reqs' = SetOutcome(th[t].req, "busy")
            /\ th' = [th EXCEPT ![t] = Return(t)]
    /\ UNCHANGED <<cfg, dec, idx, pending, timerRef, ragEnabled, window>>
    /\ UNCHANGED genVars

\* llm.set_rag_enabled(enabled).
SetLlmRagEnabled(old, enabled) == enabled

\* How an apply step ends: the restart succeeded and the client was updated,
\* the restart returned failure, or the client update raised.
ApplyResults == {"ok", "fail", "raise"}
ResultOutcome(res) ==
    IF res = "ok" THEN "applied" ELSE IF res = "fail" THEN "failed" ELSE "error"

\* The gate is released only where the apply step returns normally.
ReleaseGateOnReturn(res) == res = "raise"

\* _apply_rag_change, lines 1323-1325: the finally block; the value of
\* _service_restarting after an apply step that ended with res.
ReleaseGate(res) == FALSE

\* _apply_rag_change, lines 1308-1325: the restart returns; on success the
\* LLM client is updated; the gate is released.
ApplyEnd(t, res) ==
    /\ th[t].pc = "restart"
    /\ res \in cfg.results
    /\ ragEnabled' = IF res = "ok" THEN SetLlmRagEnabled(ragEnabled, th[t].en)
                     ELSE ragEnabled
    /\ restarting' = ReleaseGate(res)
    /\ reqs' = SetOutcome(th[t].req, ResultOutcome(res))
    /\ th' = [th EXCEPT ![t] = Return(t)]
    /\ UNCHANGED <<cfg, dec, idx, pending, timerRef, ragMode, restartLog, window>>
    /\ UNCHANGED genVars

\* The debounce delay passes: the window of the last call closes and armed
\* timers become due.
DelayElapses ==
    /\ window \/ \E i \in Timers : th[i].pc = "armed"
    /\ window' = FALSE
    /\ th' = [t \in Threads |-> IF t \in Timers /\ th[t].pc = "armed"
                                THEN [th[t] EXCEPT !.pc = "due"] ELSE th[t]]
    /\ UNCHANGED <<cfg, dec, idx, restarting, pending, timerRef, ragMode, ragEnabled, restartLog, reqs>>
    /\ UNCHANGED genVars

\* threading.Timer runs apply_change (lines 1256-1257) on its own thread.
TimerFire(i) ==
    /\ i \in Timers
    /\ th[i].pc = "due"
    /\ th' = [th EXCEPT ![i].pc = "apply"]
    /\ UNCHANGED <<cfg, dec, idx, restarting, pending, timerRef, ragMode, ragEnabled, restartLog,
                   reqs, window>>
    /\ UNCHANGED genVars

\* ------------------------------------------------ main loop: idle callbacks
SignalOf(k) == IF k = "think" THEN "ThinkingChunk" ELSE "ResponseChunk"

\* emit / emit_error, lines 794-800, 809-815, 871-876.
DeliverDelta ==
    /\ MainIdle
    /\ idleq # <<>>
    /\ Head(idleq).k # "complete"
    /\ signals' = Append(signals, Sig(SignalOf(Head(idleq).k), Head(idleq).g,
                                      Head(idleq).text))
    /\ idleq' = Tail(idleq)
    /\ UNCHANGED <<cfg, dec, idx, cur, stop, status, llmReq, conn, wk, th, nextId, store, stops>>
    /\ UNCHANGED ragVars

\* _check_pending_service_restart, line 1539: does the hook look further?
NoActiveGeneration == cur = None

\* emit_complete / emit_complete_error, lines 833-841, 856-864, 880-888, with
\* _check_pending_service_restart, lines 1537-1548: the pending change is
\* taken and cleared, then applied.
DeliverComplete ==
    /\ MainIdle
    /\ idleq # <<>>
    /\ Head(idleq).k = "complete"
    /\ signals' = Append(signals, Sig("StreamingComplete", Head(idleq).g, ""))
    /\ idleq' = Tail(idleq)
    /\ IF NoActiveGeneration /\ pending # NoChange
       THEN /\ pending' = NoChange
            /\ th' = [th EXCEPT ![MainT] = [pc |-> "apply", en |-> pending.en,
                                            mode |-> pending.mode, req |-> pending.req,
                                            origin |-> "hook", g |-> Head(idleq).g]]
       ELSE UNCHANGED <<pending, th>>
    /\ UNCHANGED <<cfg, dec, idx, cur, stop, status, llmReq, conn, wk, nextId, store, stops>>
    /\ UNCHANGED <<restarting, timerRef, ragMode, ragEnabled, restartLog, reqs, window>>

\* ------------------------------------------------ specifications
Next ==
    \/ \E msg \in Messages, t \in Gens : SendMessageStreamingBegin(msg, t)
    \/ SendMessageStreamingReturn
    \/ \E closeOk \in BOOLEAN : StopGeneration(closeOk)
    \/ \E g \in Gens : WorkerBegin(g)
    \/ \E g \in Gens, ok \in BOOLEAN : WorkerConnect(g, ok)
    \/ \E g \in Gens, line \in SysLines : WorkerReadLine(g, line)
    \/ \E g \in Gens : WorkerHandler(g)
    \/ \E g \in Gens : WorkerEmit(g)
    \/ \E g \in Gens, how \in {"end", "error"} : WorkerStreamEnd(g, how)
    \/ \E g \in Gens, saved \in BOOLEAN : WorkerCheckFinal(g, saved)
    \/ \E g \in Gens : WorkerFinishStopped(g)
    \/ \E g \in Gens : WorkerFinishOk(g)
    \/ \E g \in Gens : WorkerFinishError(g)
    \/ DeliverDelta
    \/ DeliverComplete
    \/ \E t \in Threads, e \in BOOLEAN, m \in ModeInputs, db \in BOOLEAN :
          SetRagEnabledEnter(t, e, m, db)
    \/ \E t \in Threads : SetRagEnabledDefer(t)
    \/ \E t \in Threads : SetRagEnabledDebounce(t)
    \/ \E t \in Threads : ApplyBegin(t)
    \/ \E t \in Threads, res \in ApplyResults : ApplyEnd(t, res)
    \/ DelayElapses

\* The daemon as it runs: every D-Bus handler on the GLib main loop.
Spec == Init /\ [][Next]_vars

InitMT ==
    /\ cfg \in ProfilesMT
    /\ cur = None
    /\ stop = FALSE
    /\ status = "ready"
    /\ restarting = FALSE
    /\ pending = NoChange
    /\ timerRef = None
    /\ ragMode = "augment"
    /\ ragEnabled = FALSE
    /\ llmReq = None
    /\ conn = [g \in Gens |-> "none"]
    /\ wk = [g \in Gens |-> NoWorker]
    /\ th = [t \in Threads |-> IF t \in Timers
                               THEN [IdleThread EXCEPT !.pc = "unused"]
                               ELSE IdleThread]
    /\ nextId = 1
    /\ idleq = <<>>
    /\ signals = <<>>
    /\ store = <<>>
    /\ restartLog = <<>>
    /\ reqs = <<>>
    /\ stops = <<>>
    /\ window = FALSE
    /\ idx = NoIndexing
    /\ dec = NoCall

NextMT ==
    \/ Next
    \/ \E i \in Timers : TimerFire(i)

\* SetRagEnabled handlers on two threads at once, the case the service's
\* _service_restart_lock and its debounce timer are written for.
SpecMT == InitMT /\ [][NextMT]_vars

\* ---- the daemon with handlers on two threads, up to its shutdown
\* A run whose SetRagEnabled calls all carry the same arguments and whose
\* restarts all succeed.
SameArguments(p) == [p EXCEPT !.modes = {"strict"}, !.ens = {TRUE}, !.results = {"ok"}]
ProfilesTimers == {SameArguments(Profile({MainT, RpcT}, 0, MaxReqTimers, 0, 0)),
                   Profile({MainT}, MaxGenMT, 1, MaxStop, 1)}

InitTimers ==
    /\ cfg \in ProfilesTimers
    /\ cur = None
    /\ stop = FALSE
    /\ status = "ready"
    /\ restarting = FALSE
    /\ pending = NoChange
    /\ timerRef = None
    /\ ragMode = "augment"
    /\ ragEnabled = FALSE
    /\ llmReq = None
    /\ conn = [g \in Gens |-> "none"]
    /\ wk = [g \in Gens |-> NoWorker]
    /\ th = [t \in Threads |-> IF t \in Timers
                               THEN [IdleThread EXCEPT !.pc = "unused"]
                               ELSE IdleThread]
    /\ nextId = 1
    /\ idleq = <<>>
    /\ signals = <<>>
    /\ store = <<>>
    /\ restartLog = <<>>
    /\ reqs = <<>>
    /\ stops = <<>>
    /\ window = FALSE
    /\ idx = NoIndexing
    /\ dec = NoCall

\* cleanup, lines 70-81, called by main.py once the main loop has ended: the
\* referenced timer is cancelled; the main thread handles no further call.
Cleanup ==
    /\ MainIdle
    /\ timerRef' = None
    /\ th' = [CancelTimer(th, timerRef) EXCEPT ![MainT].pc = "exited"]
    /\ UNCHANGED <<cfg, dec, idx, restarting, pending, ragMode, ragEnabled, restartLog, reqs, window>>
    /\ UNCHANGED genVars

NextTimers ==
    \/ NextMT
    \/ Cleanup

SpecTimers == InitTimers /\ [][NextTimers]_vars

\* ---- the daemon with RAG indexing
\* The same run with SetRAGConfig / ReindexRAG calls.
Indexing(p) == [p EXCEPT !.maxIdx = MaxIdx]
ProfilesIdx == {Indexing(Profile({MainT}, 1, 0, 0, 1)),
                Indexing(Profile({MainT}, 0, 1, 0, 0)),
                Profile({MainT}, 1, 1, MaxStop, 1)}

\* main.py, lines 61-66: the client starts with RAG enabled when the
\* settings say so and an index exists.
InitIdx ==
    /\ cfg \in ProfilesIdx
    /\ cur = None
    /\ stop = FALSE
    /\ status = "ready"
    /\ restarting = FALSE
    /\ pending = NoChange
    /\ timerRef = None
    /\ ragMode = "augment"
    /\ ragEnabled \in (IF cfg.maxIdx > 0 THEN BOOLEAN ELSE {FALSE})
    /\ llmReq = None
    /\ conn = [g \in Gens |-> "none"]
    /\ wk = [g \in Gens |-> NoWorker]
    /\ th = [t \in Threads |-> IF t \in Timers
                               THEN [IdleThread EXCEPT !.pc = "unused"]
                               ELSE IdleThread]
    /\ nextId = 1
    /\ idleq = <<>>
    /\ signals = <<>>
    /\ store = <<>>
    /\ restartLog = <<>>
    /\ reqs = <<>>
    /\ stops = <<>>
    /\ window = FALSE
    /\ idx = NoIndexing
    /\ dec = NoCall

\* An indexing thread that has been started and has not ended.
IdxRunning(k) == idx.thr[k].pc \in {"index", "restart", "end"}

\* A call goes ahead whether or not indexing is active.
NeverBusy(active) == FALSE

\* SetRAGConfig, line 941: is the call turned away?
IndexingBusy(active) == active

\* SetRAGConfig, lines 997-1077: mark indexing active and start the thread
\* of the call being handled.
StartIndexing(x, was) ==
    [x EXCEPT !.active = TRUE,
              !.thr[Len(x.calls)] = [pc |-> "index", was |-> was, res |-> "none"]]

\* One SetRAGConfig / ReindexRAG call as the log keeps it.
IdxCall(via, out) ==
    [via |-> via, out |-> out, during |-> \E k \in IdxThreads : IdxRunning(k)]

\* SetRAGConfig, lines 924-998, and ReindexRAG, lines 1162-1186, which calls
\* it with the stored configuration: turned away while indexing is active;
\* else, when RAG is enabled, the backend is restarted without it first.
SetRAGConfig(via) ==
    /\ MainIdle
    /\ Len(idx.calls) < cfg.maxIdx
    /\ IF IndexingBusy(idx.active)
       THEN /\ idx' = [idx EXCEPT !.calls = Append(@, IdxCall(via, "rejected"))]
            /\ th' = th
       ELSE IF ragEnabled
       THEN /\ idx' = [idx EXCEPT !.calls = Append(@, IdxCall(via, "restarting"))]
            /\ th' = [th EXCEPT ![MainT].pc = "idxRestart"]
       ELSE /\ idx' = StartIndexing([idx EXCEPT !.calls = Append(@, IdxCall(via, "started"))],
                                    FALSE)
            /\ th' = th
    /\ UNCHANGED <<cfg, dec, restarting, pending, timerRef, ragMode, ragEnabled, restartLog,
                   reqs, window>>
    /\ UNCHANGED genVars

\* SetRAGConfig, lines 993-1079: the restart returns, the client is switched
\* to no RAG, the thread is started and the handler returns True.
SetRAGConfigStart ==
    /\ th[MainT].pc = "idxRestart"
    /\ ragEnabled' = SetLlmRagEnabled(ragEnabled, FALSE)
    /\ idx' = StartIndexing([idx EXCEPT !.calls[Len(idx.calls)].out = "started"], TRUE)
    /\ th' = [th EXCEPT ![MainT] = IdleThread]
    /\ UNCHANGED <<cfg, dec, restarting, pending, timerRef, ragMode, restartLog, reqs, window>>
    /\ UNCHANGED genVars

\* How rag.index_documents ends: result.success, a failure result, or an
\* exception.
IndexResults == {"ok", "fail", "raise"}

\* background_indexing, lines 1003-1068: index_documents ends; on success,
\* when RAG was enabled before, the backend is restarted with it.
IndexDocuments(k, res) ==
    /\ idx.thr[k].pc = "index"
    /\ idx' = [idx EXCEPT !.thr[k].res = res,
                          !.thr[k].pc = IF res = "ok" /\ idx.thr[k].was
                                        THEN "restart" ELSE "end"]
    /\ UNCHANGED <<cfg, dec, th>>
    /\ UNCHANGED ragVars
    /\ UNCHANGED genVars

\* background_indexing, lines 1048-1050: the restart returns and the client
\* is switched back to RAG.
IndexRestartEnd(k) ==
    /\ idx.thr[k].pc = "restart"
    /\ ragEnabled' = SetLlmRagEnabled(ragEnabled, TRUE)
    /\ idx' = [idx EXCEPT !.thr[k].pc = "end"]
    /\ UNCHANGED <<cfg, dec, th, restarting, pending, timerRef, ragMode, restartLog, reqs,
                   window>>
    /\ UNCHANGED genVars

\* background_indexing, lines 1070-1073: the finally block.
ActiveAfterIndexing(res) == FALSE

\* background_indexing, lines 1070-1073: the thread ends.
IndexEnd(k) ==
    /\ idx.thr[k].pc = "end"
    /\ idx' = [idx EXCEPT !.active = ActiveAfterIndexing(idx.thr[k].res),
                          !.thr[k].pc = "done"]
    /\ UNCHANGED <<cfg, dec, th>>
    /\ UNCHANGED ragVars
    /\ UNCHANGED genVars

NextIdx ==
    \/ Next
    \/ \E via \in {"set", "reindex"} : SetRAGConfig(via)
    \/ SetRAGConfigStart
    \/ \E k \in IdxThreads, res \in IndexResults : IndexDocuments(k, res)
    \/ \E k \in IdxThreads : IndexRestartEnd(k)
    \/ \E k \in IdxThreads : IndexEnd(k)

SpecIdx == InitIdx /\ [][NextIdx]_vars

\* ---- the daemon with its scheduling
ProfilesLive == {Profile({MainT}, MaxGen, 0, 0, 1),
                 Profile({MainT}, 1, 0, MaxStop, 1),
                 Profile({MainT}, 1, 1, 0, 1)}

InitLive ==
    /\ cfg \in ProfilesLive
    /\ cur = None
    /\ stop = FALSE
    /\ status = "ready"
    /\ restarting = FALSE
    /\ pending = NoChange
    /\ timerRef = None
    /\ ragMode = "augment"
    /\ ragEnabled = FALSE
    /\ llmReq = None
    /\ conn = [g \in Gens |-> "none"]
    /\ wk = [g \in Gens |-> NoWorker]
    /\ th = [t \in Threads |-> IF t \in Timers
                               THEN [IdleThread EXCEPT !.pc = "unused"]
                               ELSE IdleThread]
    /\ nextId = 1
    /\ idleq = <<>>
    /\ signals = <<>>
    /\ store = <<>>
    /\ restartLog = <<>>
    /\ reqs = <<>>
    /\ stops = <<>>
    /\ window = FALSE
    /\ idx = NoIndexing
    /\ dec = NoCall

\* The steps a started worker thread takes by itself: everything but the
\* arrival of another line from the backend.
WorkerRuns(g) ==
    \/ WorkerBegin(g)
    \/ \E ok \in BOOLEAN : WorkerConnect(g, ok)
    \/ WorkerHandler(g)
    \/ WorkerEmit(g)
    \/ \E how \in {"end", "error"} : WorkerStreamEnd(g, how)
    \/ \E saved \in BOOLEAN : WorkerCheckFinal(g, saved)
    \/ WorkerFinishStopped(g)
    \/ WorkerFinishOk(g)
    \/ WorkerFinishError(g)

\* The steps the main loop takes by itself: a handler in progress runs on,
\* and queued callbacks are dispatched.
MainLoopRuns ==
    \/ SendMessageStreamingReturn
    \/ SetRagEnabledDefer(MainT)
    \/ SetRagEnabledDebounce(MainT)
    \/ ApplyBegin(MainT)
    \/ \E res \in ApplyResults : ApplyEnd(MainT, res)
    \/ DeliverDelta
    \/ DeliverComplete

\* Threads that can run do run; the backend stream ends or is closed.
SpecLive ==
    /\ InitLive /\ [][Next]_vars
    /\ \A g \in Gens : WF_vars(WorkerRuns(g))
    /\ WF_vars(MainLoopRuns)

\* ---- the daemon on a machine whose clock is set back
ProfilesClock == {Stepped(Profile({MainT}, MaxGen, 0, 0, 1)),
                  Stepped(Profile({MainT}, 1, 1, MaxStop, 0))}

InitClock ==
    /\ cfg \in ProfilesClock
    /\ cur = None
    /\ stop = FALSE
    /\ status = "ready"
    /\ restarting = FALSE
    /\ pending = NoChange
    /\ timerRef = None
    /\ ragMode = "augment"
    /\ ragEnabled = FALSE
    /\ llmReq = None
    /\ conn = [g \in Gens |-> "none"]
    /\ wk = [g \in Gens |-> NoWorker]
    /\ th = [t \in Threads |-> IF t \in Timers
                               THEN [IdleThread EXCEPT !.pc = "unused"]
                               ELSE IdleThread]
    /\ nextId = 1
    /\ idleq = <<>>
    /\ signals = <<>>
    /\ store = <<>>
    /\ restartLog = <<>>
    /\ reqs = <<>>
    /\ stops = <<>>
    /\ window = FALSE
    /\ idx = NoIndexing
    /\ dec = NoCall

\* Every D-Bus handler on the GLib main loop; time.time() not monotonic.
SpecClock == InitClock /\ [][Next]_vars

\* ---- one streaming call by itself
sysVars == <<cfg, cur, stop, status, restarting, pending, timerRef, ragMode,
             ragEnabled, llmReq, conn, wk, th, nextId, idleq, signals, store,
             restartLog, reqs, stops, window, idx>>

InitDec ==
    /\ cfg = Profile({MainT}, 0, 0, 0, 0)
    /\ cur = None
    /\ stop = FALSE
    /\ status = "ready"
    /\ restarting = FALSE
    /\ pending = NoChange
    /\ timerRef = None
    /\ ragMode = "augment"
    /\ ragEnabled = FALSE
    /\ llmReq = None
    /\ conn = [g \in Gens |-> "none"]
    /\ wk = [g \in Gens |-> NoWorker]
    /\ th = [t \in Threads |-> IF t \in Timers
                               THEN [IdleThread EXCEPT !.pc = "unused"]
                               ELSE IdleThread]
    /\ nextId = 1
    /\ idleq = <<>>
    /\ signals = <<>>
    /\ store = <<>>
    /\ restartLog = <<>>
    /\ reqs = <<>>
    /\ stops = <<>>
    /\ window = FALSE
    /\ idx = NoIndexing
    /\ dec = [NoCall EXCEPT !.pc = "stream"]

\* The backend has one more line in the body of its response.
BackendSends(line) ==
    /\ dec.pc = "stream"
    /\ Len(dec.lines) < MaxStream
    /\ dec' = [dec EXCEPT !.lines = Append(@, line)]
    /\ UNCHANGED sysVars

\* generate_response_streaming calls _call_ramalama_api_streaming (line 499)
\* on that response, with or without each callback.
StreamingCall(ending, cc, rc) ==
    /\ dec.pc = "stream"
    /\ dec' = [dec EXCEPT !.pc = "called", !.ending = ending, !.cc = cc, !.rc = rc,
                          !.res = CallRamalamaApiStreaming(dec.lines, ending, cc, rc)]
    /\ UNCHANGED sysVars

\* generate_response_streaming returns (lines 501, 505).
StreamingReturn ==
    /\ dec.pc = "called"
    /\ dec' = [dec EXCEPT !.pc = "returned", !.ret = GenerateResponseStreaming(dec.res)]
    /\ UNCHANGED sysVars

NextDec ==
    \/ \E line \in DecLines : BackendSends(line)
    \/ \E ending \in Endings, cc \in BOOLEAN, rc \in BOOLEAN : StreamingCall(ending, cc, rc)
    \/ StreamingReturn

\* The decoder on every stream of at most MaxStream lines.
SpecDec == InitDec /\ [][NextDec]_vars

\* ------------------------------------------------ properties
Started(g) == g < nextId
Superseded(g) == g + 1 < nextId
WorkerSteps(g) == wk'[g] # wk[g]

\* C1: when SendMessageStreaming returns, _current_generation_id is the id
\* it returns.
C1_CurrentIsReturnedId ==
    [][(th[MainT].pc = "sms" /\ th'[MainT].pc = "idle") => cur' = th[MainT].g]_vars

\* C2: no step of the worker of a superseded generation changes
\* _current_generation_id.
C2_SupersededNeverWritesCurrent ==
    [][\A g \in Gens : (Superseded(g) /\ WorkerSteps(g)) => cur' = cur]_vars

\* The step hands a delta of generation g to GLib.idle_add.
DeltaQueued(g) ==
    /\ Len(idleq') = Len(idleq) + 1
    /\ idleq'[Len(idleq')].g = g
    /\ idleq'[Len(idleq')].k \in {"chunk", "think"}

\* C3: no delta of a generation is handed to the delivery queue once a newer
\* generation has been started, nor while the stop flag is set.
C3_StaleDeltaNeverQueued ==
    [][\A g \in Gens : DeltaQueued(g) => (~Superseded(g) /\ ~stop)]_vars

\* ---- reconfiguration
Quiescent ==
    /\ MainIdle
    /\ idleq = <<>>
    /\ \A g \in Gens : wk[g].pc = "done" \/ ~Started(g)

RestartsFor(r) == {i \in 1..Len(restartLog) : restartLog[i].req = r}
Requests == 1..Len(reqs)
Accepted(r) == reqs[r].outcome \notin {"no_db", "in_progress"}

\* A request deferred while the generation it found registered was running.
DeferredLive(r) == reqs[r].path = "deferred" /\ reqs[r].live

\* C4: a request deferred behind a running generation is applied at most
\* once, with its own parameters; and once every generation has ended and its
\* completion was delivered, it was applied once (unless a later deferred
\* request replaced it) and no request is pending.
C4_DeferredAppliedExactlyOnce ==
    \A r \in Requests : DeferredLive(r) =>
        /\ Cardinality(RestartsFor(r)) <= 1
        /\ \A i \in RestartsFor(r) :
              restartLog[i].en = reqs[r].en /\ restartLog[i].mode = reqs[r].mode
        /\ Quiescent =>
              /\ pending = NoChange
              /\ \/ Cardinality(RestartsFor(r)) = 1
                 \/ \E r2 \in Requests : r2 > r /\ reqs[r2].path = "deferred"

\* ---- gate
Restarters == {t \in Threads : th[t].pc = "restart"}

\* C5: at most one thread is inside the restart of _apply_rag_change; a
\* thread that finds the gate held is answered busy (lines 1204, 1289) or
\* arms the debounce timer (line 1253), and invokes no restart.
C5_GateMutualExclusion ==
    /\ [](Cardinality(Restarters) <= 1 /\ (restarting <=> Restarters # {}))
    /\ [][\A t \in Threads :
            /\ (th[t].pc = "apply" /\ th'[t] # th[t] /\ restarting)
                  => /\ th'[t].pc = Finished(t)
                     /\ reqs'[th[t].req].outcome = "busy"
                     /\ restartLog' = restartLog
            /\ (th[t].pc = "sreC" /\ th'[t] # th[t] /\ restarting)
                  => /\ reqs'[th[t].req].path = "debounced"
                     /\ restartLog' = restartLog
            /\ (th[t].pc = "idle" /\ Len(reqs') > Len(reqs) /\ restarting)
                  => /\ reqs'[Len(reqs')].outcome = "in_progress"
                     /\ th' = th
                     /\ restartLog' = restartLog]_vars

\* One thread is restarting the backend while another request was answered
\* busy at the gate.
C5_Witness ==
    \E t \in Threads, r \in Requests :
        /\ th[t].pc = "restart"
        /\ th[t].req # r
        /\ reqs[r].outcome = "busy"

\* ---- cross-serialization
InFlight(g) == wk[g].pc \in {"read", "cb", "emit"}

\* C6: no restart of _apply_rag_change is in progress while a generation's
\* streaming call is in flight.
C6_NoRestartDuringGeneration ==
    ~(Restarters # {} /\ \E g \in Gens : InFlight(g))

CompleteEmittedBy(g, n) ==
    \E i \in 1..n : signals[i] = Sig("StreamingComplete", g, "")

\* C7: the restart for a request deferred behind a generation is invoked by
\* the hook, after the StreamingComplete signal of that generation.
C7_DeferredRestartAfterComplete ==
    \A i \in 1..Len(restartLog) :
        LET r == restartLog[i].req IN
        reqs[r].path = "deferred" =>
            /\ restartLog[i].origin = "hook"
            /\ CompleteEmittedBy(reqs[r].active, restartLog[i].at)

\* ---- debounce
\* The handler of request r found no generation registered and did not
\* reject the request.
IdleCall(r) == reqs[r].active = None /\ Accepted(r)
Handled(r) == reqs[r].outcome # "running"
ParamsOf(r) == <<reqs[r].en, reqs[r].mode>>
RestartParams(i) == <<restartLog[i].en, restartLog[i].mode>>

ChunkEmitted(g) ==
    \E i \in 1..Len(signals) : signals[i].g = g /\ signals[i].sig = "ResponseChunk"

StoreCalls(g) == {i \in 1..Len(store) : store[i].g = g}
StoreWorked(g) == \A i \in StoreCalls(g) : store[i].ok

\* StopGeneration call k was made for the generation just started, before
\* any line of its stream was read; and the store did not fail.
StoppedBeforeAnyDelta(k) ==
    /\ stops[k].g # None
    /\ stops[k].g = stops[k].latest
    /\ stops[k].pc \in {"new", "connect", "read"}
    /\ stops[k].n = 0
    /\ StoreWorked(stops[k].g)

\* C9: a generation stopped before any delta arrived emits no ResponseChunk,
\* and once its worker has ended and the main loop has drained,
\* StreamingComplete was emitted for it.
C9_StopBeforeDeltaNoContent ==
    \A k \in 1..Len(stops) : StoppedBeforeAnyDelta(k) =>
        /\ ~ChunkEmitted(stops[k].g)
        /\ Quiescent => CompleteEmittedBy(stops[k].g, Len(signals))

\* The signals of generation g other than ThinkingChunk, in emission order.
ContentSignals(g) ==
    SelectSeq(signals, LAMBDA x : x.g = g /\ x.sig # "ThinkingChunk")

\* One ResponseChunk per content delta, in order, then StreamingComplete.
ExpectedSignals(g) ==
    [i \in 1..(Len(wk[g].deltas) + 1) |->
        IF i <= Len(wk[g].deltas) THEN Sig("ResponseChunk", g, wk[g].deltas[i])
        ELSE Sig("StreamingComplete", g, "")]

\* Generation g was never stopped nor superseded, its stream ran to the
\* terminal marker after at least one content delta, the store did not fail,
\* and everything was delivered.
CleanRun(g) ==
    /\ Started(g) /\ ~Superseded(g)
    /\ stops = <<>>
    /\ wk[g].pc = "done" /\ wk[g].how = "end" /\ wk[g].deltas # <<>>
    /\ StoreWorked(g)
    /\ Quiescent

\* C10: an uncancelled, unsuperseded generation whose stream ends with the
\* terminal marker delivers one ResponseChunk per content delta, in order,
\* then StreamingComplete, and add_conversation(message, full content) is
\* called exactly once for it.
C10_CleanRunDeliversAndStores ==
    \A g \in Gens : CleanRun(g) =>
        /\ ContentSignals(g) = ExpectedSignals(g)
        /\ Cardinality(StoreCalls(g)) = 1
        /\ \A i \in StoreCalls(g) :
              store[i].msg = wk[g].msg /\ store[i].resp = wk[g].full

\* ---- ordering
RECURSIVE IsSubseq(_, _)
\* a can be obtained from b by leaving elements out.
IsSubseq(a, b) ==
    IF a = <<>> THEN TRUE
    ELSE IF b = <<>> THEN FALSE
    ELSE IF Head(a) = Head(b) THEN IsSubseq(Tail(a), Tail(b))
    ELSE IsSubseq(a, Tail(b))

\* The decoder's callbacks of generation g as the signals they would become.
MadeAsSignals(g) ==
    [i \in 1..Len(wk[g].made) |->
        Sig(SignalOf(wk[g].made[i].k), g, wk[g].made[i].text)]

\* The deltas of generation g delivered so far, then those still queued.
IsDelta(x) == x.sig # "StreamingComplete" /\ x.text # ErrChunk
DeltaSignals(g) == SelectSeq(signals, LAMBDA x : x.g = g /\ IsDelta(x))
QueuedOf(g) == SelectSeq(idleq, LAMBDA x : x.g = g /\ x.k \in {"chunk", "think"})
QueuedAsSignals(g) ==
    [i \in 1..Len(QueuedOf(g)) |-> Sig(SignalOf(QueuedOf(g)[i].k), g, QueuedOf(g)[i].text)]

CompleteAt(g, i) == signals[i] = Sig("StreamingComplete", g, "")

\* C11: the deltas of a generation are delivered in the order the decoder
\* made them, and nothing carrying a generation's id is delivered, or still
\* queued, after its StreamingComplete.
C11_OrderedAndCompleteLast ==
    \A g \in Gens :
        /\ IsSubseq(DeltaSignals(g) \o QueuedAsSignals(g), MadeAsSignals(g))
        /\ \A i \in 1..Len(signals) : CompleteAt(g, i) =>
              /\ \A j \in (i + 1)..Len(signals) : signals[j].g # g
              /\ \A j \in 1..Len(idleq) : idleq[j].g # g

\* A generation delivered two deltas and then its StreamingComplete.
C11_Witness ==
    \E g \in Gens :
        /\ Len(DeltaSignals(g)) >= 2
        /\ CompleteAt(g, Len(signals))

\* ---- termination
CompletesDelivered(g) == {i \in 1..Len(signals) : CompleteAt(g, i)}
CompletesQueued(g) == {i \in 1..Len(idleq) : idleq[i] = Idle("complete", g, "")}

\* C12: every started generation eventually produces its StreamingComplete,
\* never more than one, and a worker that has ended, on whichever path, has
\* queued or delivered exactly one.
C12_ExactlyOneComplete ==
    /\ [](\A g \in Gens :
            /\ Cardinality(CompletesDelivered(g)) + Cardinality(CompletesQueued(g)) <= 1
            /\ wk[g].pc = "done" =>
                  Cardinality(CompletesDelivered(g)) + Cardinality(CompletesQueued(g)) = 1)
    /\ \A g \in Gens : Started(g) ~> (Cardinality(CompletesDelivered(g)) = 1)

\* A generation whose worker failed (the store raised) and a superseded
\* generation have both delivered their StreamingComplete.
C12_Witness ==
    \E g, h \in Gens :
        /\ \E i \in StoreCalls(g) : ~store[i].ok
        /\ StoreCalls(h) = {} /\ wk[h].pc = "done" /\ Superseded(h)
        /\ CompletesDelivered(g) # {} /\ CompletesDelivered(h) # {}

\* ---- registry
\* Generation g has terminated and no newer generation was started.
TerminatedLatest(g) == Started(g) /\ ~Superseded(g) /\ wk[g].pc = "done"

\* C13: once the latest generation has terminated, by completion,
\* cancellation or failure, _current_generation_id is None.
C13_TerminatedClearsId ==
    \A g \in Gens : TerminatedLatest(g) => cur = None

\* ---- errors
TransportFailed(g) == wk[g].how \in {"refused", "error"}

\* A ResponseChunk of generation g that carries a failure message.
FailureChunkEmitted(g) ==
    \E i \in 1..Len(signals) :
        /\ signals[i].g = g
        /\ signals[i].sig = "ResponseChunk"
        /\ signals[i].text \in {ErrText, ErrChunk}

\* C14: a generation, neither stopped nor superseded, whose backend call
\* failed in transport has emitted a ResponseChunk describing the failure by
\* the time its StreamingComplete is emitted.
C14_TransportErrorSurfaced ==
    \A g \in Gens :
        (Started(g) /\ ~Superseded(g) /\ stops = <<>> /\ TransportFailed(g)
            /\ CompletesDelivered(g) # {})
          => FailureChunkEmitted(g)

\* ---- gate release
\* C15: _service_restarting is set only while an apply step is between taking
\* the gate and its end, and every end of an apply step, by success, failure
\* or exception, leaves it False.
C15_GateAlwaysReleased ==
    /\ [](restarting => Restarters # {})
    /\ [][\A t \in Threads :
            (th[t].pc = "restart" /\ th'[t].pc # "restart") => ~restarting']_vars

\* An apply step ended with an exception, and a later request was applied.
C15_Witness ==
    \E r1, r2 \in Requests :
        /\ r1 < r2
        /\ reqs[r1].outcome = "error"
        /\ reqs[r2].outcome = "applied"
        /\ ~restarting

\* ---- debounce timer
\* Thread t, at the top of the apply step, takes its next step.
AppliesNow(t) == th[t].pc = "apply" /\ th'[t] # th[t]

\* C16: a fired debounce timer re-evaluates its request: with a generation
\* registered the request becomes the pending one and no restart is invoked;
\* with none registered and the gate held, a timer is armed for it again.
C16_TimerReevaluates ==
    [][\A i \in Timers : AppliesNow(i) =>
          /\ cur # None =>
                /\ restartLog' = restartLog
                /\ pending'.req = th[i].req
          /\ (cur = None /\ restarting) =>
                \E j \in Timers : th'[j].pc = "armed" /\ th'[j].req = th[i].req]_vars

\* The step is the entry of a SetRagEnabled call.
CallArrives == Len(reqs') = Len(reqs) + 1

\* C17: a SetRagEnabled call that passes the database check and arrives with
\* no generation registered and the gate held is not rejected: it goes on to
\* arm the debounce timer.
C17_GateHeldIsDebounced ==
    [][(CallArrives /\ cur = None /\ restarting /\ reqs'[Len(reqs')].outcome # "no_db")
          => reqs'[Len(reqs')].outcome = "running"]_vars

\* ---- cached configuration
\* The restart in progress is the last one invoked.
LastRestart == restartLog[Len(restartLog)]

\* Thread t's apply step ends in this step, the restart having failed.
ApplyFails(t) ==
    /\ th[t].pc = "restart" /\ th'[t].pc # "restart"
    /\ reqs'[th[t].req].outcome = "failed"

\* C18: when the restart fails, the cached enabled flag and the cached mode
\* are after the apply step what they were before it.
C18_FailedRestartKeepsCache ==
    [][\A t \in Threads : ApplyFails(t) =>
          /\ ragEnabled' = LastRestart.wasEn
          /\ ragMode' = LastRestart.wasMode]_vars

\* ---- no request lost
\* The call of request r returned a success result: applied, or scheduled.
ReturnedSuccess(r) ==
    \/ reqs[r].outcome = "applied"
    \/ reqs[r].path \in {"deferred", "debounced"}

\* A later call was accepted in its place.
SupersededRequest(r) ==
    \E r2 \in Requests : r2 > r /\ reqs[r2].path # "none"

\* Nothing is left to run: workers ended, the main loop drained, every
\* handler returned and no timer waiting.
AllSettled ==
    /\ Quiescent
    /\ \A t \in Threads : th[t].pc \in {"idle", "unused", "done", "cancelled"}

\* C19: once everything has run, every request whose call returned success
\* has had a restart invoked with its parameters, or was superseded by a later
\* request.
C19_NoAcceptedRequestLost ==
    AllSettled =>
        \A r \in Requests : ReturnedSuccess(r) =>
            \/ \E i \in RestartsFor(r) : RestartParams(i) = ParamsOf(r)
            \/ SupersededRequest(r)

\* ---- pending slot
Deferred == {r \in Requests : reqs[r].path = "deferred"}
SameGeneration(r1, r2) == reqs[r1].active = reqs[r2].active

\* The pending slot holds the latest deferred request, with its parameters;
\* of several requests deferred behind one generation only the last is ever
\* applied, and the hook applies a request with its own parameters.
LastDeferredKept ==
    /\ pending # NoChange =>
          /\ pending.req \in Deferred
          /\ \A r \in Deferred : r <= pending.req
          /\ <<pending.en, pending.mode>> = ParamsOf(pending.req)
    /\ \A r1, r2 \in Deferred :
          (r1 < r2 /\ SameGeneration(r1, r2)) => RestartsFor(r1) = {}
    /\ \A i \in 1..Len(restartLog) :
          restartLog[i].origin = "hook" =>
              /\ restartLog[i].req \in Deferred
              /\ RestartParams(i) = ParamsOf(restartLog[i].req)

\* The last deferred request, made while its generation was still running,
\* has been applied once everything has run.
LastDeferredApplied ==
    AllSettled =>
        \A r \in Deferred :
            (reqs[r].live /\ \A r2 \in Deferred : r2 <= r) =>
                \E i \in RestartsFor(r) : RestartParams(i) = ParamsOf(r)

\* C20: at most one deferred request is outstanding, the last one made while
\* a generation is active replaces the earlier ones, which are never
\* applied, and that last one is applied in the end.
C20_LastDeferredKeptAndApplied == LastDeferredKept /\ LastDeferredApplied

\* ---- mode validation
\* Threads holding the parameters of a change they are about to apply.
HoldsChange(t) == th[t].pc \in {"sreB", "sreC", "armed", "due", "apply", "restart"}

\* C21: a mode outside the valid ones is taken as "augment", so the mode
\* of a request, of the pending change, of a debounce timer, of _rag_mode and
\* of every restart is a valid mode.
C21_ModesAlwaysValid ==
    /\ \A r \in Requests :
          reqs[r].mode = IF reqs[r].given \in ValidModes THEN reqs[r].given
                         ELSE "augment"
    /\ ragMode \in ValidModes
    /\ pending # NoChange => pending.mode \in ValidModes
    /\ \A t \in Threads : HoldsChange(t) => th[t].mode \in ValidModes
    /\ \A i \in 1..Len(restartLog) : restartLog[i].mode \in ValidModes

\* A call given an invalid mode was debounced, and its timer restarted the
\* backend with "augment" in place of the cached "strict".
C21_Witness ==
    \E r \in Requests :
        /\ reqs[r].given \notin ValidModes
        /\ reqs[r].path = "debounced"
        /\ \E i \in RestartsFor(r) :
              /\ restartLog[i].mode = "augment"
              /\ restartLog[i].wasMode = "strict"
              /\ ragMode = "augment"

\* ---- cancellation
\* StopGeneration was called while g was the registered generation.
StopRequestedFor(g) == \E k \in 1..Len(stops) : stops[k].g = g

\* The line worker g is handling was read after a StopGeneration call made
\* for g.
ReadAfterStop(g) ==
    \E k \in 1..Len(stops) : stops[k].g = g /\ wk[g].n > stops[k].n

\* C22: once StopGeneration was called for the current generation, the stop
\* flag stays set while that generation is registered and its worker has not
\* ended, and no delta of it read after the call is queued for delivery.
C22_CancelledNeverUnset ==
    [][\A g \in Gens :
          /\ (cur = g /\ cur' = g /\ StopRequestedFor(g) /\ stop
                /\ wk'[g].pc # "done") => stop'
          /\ (StopRequestedFor(g) /\ ReadAfterStop(g)) => ~DeltaQueued(g)]_vars

\* StopGeneration call k was made while the worker of the registered
\* generation was reading its stream.
StoppedWhileReading(k) ==
    /\ stops[k].g # None
    /\ stops[k].closeOk
    /\ stops[k].pc \in {"read", "cb", "emit"}

\* C23: a StopGeneration call made while the worker of the current
\* generation reads the backend stream closes that generation's connection,
\* whatever the workers of older generations do.
C23_StopClosesOwnConnection ==
    \A k \in 1..Len(stops) : StoppedWhileReading(k) => conn[stops[k].g] = "closed"

\* ---- persistence
\* StopGeneration call k was made for a registered generation whose stream
\* had not ended.
StoppedBeforeStreamEnd(k) ==
    /\ stops[k].g # None
    /\ stops[k].pc \in {"none", "new", "connect", "read", "cb", "emit"}

\* C24: a generation stopped before its stream ended is never passed to
\* add_conversation, and once its worker has ended and the main loop has
\* drained its StreamingComplete was emitted.
C24_StoppedNeverPersisted ==
    \A k \in 1..Len(stops) : StoppedBeforeStreamEnd(k) =>
        /\ StoreCalls(stops[k].g) = {}
        /\ (wk[stops[k].g].pc = "done" /\ Quiescent) =>
               CompleteEmittedBy(stops[k].g, Len(signals))

\* ---- decoder
\* The streaming call was made on the stream dec.lines.
Called == dec.pc \in {"called", "returned"}

\* The lines of a stream before its first terminal marker.
RECURSIVE BeforeMarker(_)
BeforeMarker(lines) ==
    IF lines = <<>> \/ Head(lines) = DoneLine THEN <<>>
    ELSE <<Head(lines)>> \o BeforeMarker(Tail(lines))

\* The callbacks the payloads of a sequence of lines call for.
RECURSIVE PayloadCallbacks(_)
PayloadCallbacks(lines) ==
    IF lines = <<>> THEN <<>>
    ELSE Callbacks(Head(lines)) \o PayloadCallbacks(Tail(lines))

OfKind(cbs, k) == SelectSeq(cbs, LAMBDA x : x.k = k)
WithoutLine(lines, l) == SelectSeq(lines, LAMBDA x : x # l)

\* C25: a data: line that is not valid JSON changes nothing in what the
\* call does with the other lines, and the content deltas the call emits are
\* those of the payloads before the terminal marker, in order.
C25_MalformedSkippedRestEmitted ==
    (Called /\ dec.cc) =>
        /\ LET res == CallRamalamaApiStreaming(WithoutLine(dec.lines, BadJson),
                                               dec.ending, dec.cc, dec.rc)
           IN /\ res.out = dec.res.out
              /\ res.value = dec.res.value
              /\ res.cbs = dec.res.cbs
        /\ OfKind(dec.res.cbs, "chunk")
              = OfKind(PayloadCallbacks(BeforeMarker(dec.lines)), "chunk")

\* The texts of a sequence of callbacks, concatenated.
RECURSIVE Concat(_)
Concat(cbs) == IF cbs = <<>> THEN "" ELSE Head(cbs).text \o Concat(Tail(cbs))

\* C26: the value _call_ramalama_api_streaming returns is the concatenation,
\* in order, of the fragments it passed to the content callback, without the
\* reasoning fragments, and is the same whichever callbacks are supplied.
C26_ReturnIsConcatenation ==
    (Called /\ dec.res.out = "return") =>
        /\ dec.cc => dec.res.value = Concat(OfKind(dec.res.cbs, "chunk"))
        /\ \A cc \in BOOLEAN, rc \in BOOLEAN :
              LET other == CallRamalamaApiStreaming(dec.lines, dec.ending, cc, rc)
              IN other.out = "return" /\ other.value = dec.res.value

\* A call with both callbacks returned "ab" after passing "a" and "b" to the
\* content callback and a reasoning fragment to the reasoning callback.
C26_Witness ==
    /\ dec.pc = "returned" /\ dec.res.out = "return"
    /\ dec.cc /\ dec.rc
    /\ dec.ret = "ab"
    /\ OfKind(dec.res.cbs, "think") # <<>>
    /\ Len(OfKind(dec.res.cbs, "chunk")) = 2

\* The lines the call took from the stream, with a fragment in field f
\* ("r": reasoning_content, "c": content).
WithFragment(f) ==
    {i \in 1..dec.res.n :
        /\ dec.lines[i].kind = "payload"
        /\ (IF f = "r" THEN dec.lines[i].r ELSE dec.lines[i].c) \notin Fields}

\* C27: with both callbacks supplied, a payload gives one reasoning delta
\* when its reasoning field is neither absent nor null and one content delta
\* when its content field is neither absent nor null, each field by itself;
\* payloads with neither give no delta.
C27_FieldsInspectedIndependently ==
    (Called /\ dec.cc /\ dec.rc) =>
        /\ Len(OfKind(dec.res.cbs, "think")) = Cardinality(WithFragment("r"))
        /\ Len(OfKind(dec.res.cbs, "chunk")) = Cardinality(WithFragment("c"))
        /\ \A i \in 1..Len(dec.res.cbs) :
              \E j \in WithFragment("r") \cup WithFragment("c") :
                  dec.res.cbs[i].text \in {dec.lines[j].r, dec.lines[j].c} \ Fields

\* A stream of a payload with null content and a reasoning fragment, a
\* payload with null reasoning and a content fragment, and a payload with
\* neither gave one reasoning delta, then one content delta.
C27_Witness ==
    /\ Called /\ dec.cc /\ dec.rc
    /\ dec.lines = <<Payload("r", "null"), Payload("null", "a"), Payload("null", "absent")>>
    /\ dec.res.cbs = <<[k |-> "think", text |-> "r"], [k |-> "chunk", text |-> "a"]>>

\* What a streaming call does, apart from the number of lines it took.
Outcome(res) == [out |-> res.out, value |-> res.value, cbs |-> res.cbs]

HasMarker(lines) == BeforeMarker(lines) # lines

\* C28: blank lines change nothing, and the call stops at the first
\* "data: [DONE]" line: it takes no line after it, and emits and returns
\* what it would if the stream ended with that line.
C28_EndsAtTerminalMarker ==
    Called =>
        /\ Outcome(dec.res)
              = Outcome(CallRamalamaApiStreaming(WithoutLine(dec.lines, Blank),
                                                 dec.ending, dec.cc, dec.rc))
        /\ HasMarker(dec.lines) =>
              /\ dec.res.n <= Len(BeforeMarker(dec.lines)) + 1
              /\ Outcome(dec.res)
                    = Outcome(CallRamalamaApiStreaming(
                                  BeforeMarker(dec.lines) \o <<DoneLine>>,
                                  dec.ending, dec.cc, dec.rc))
              /\ dec.res.out = "return" =>
                    dec.res.value = Concat(OfKind(PayloadCallbacks(BeforeMarker(dec.lines)),
                                                  "chunk"))

\* A content payload, the marker, then another content payload: only the
\* first was emitted and returned.
C28_Witness ==
    /\ dec.pc = "returned" /\ dec.cc
    /\ dec.lines = <<Payload("absent", "a"), DoneLine, Payload("absent", "b")>>
    /\ dec.res.cbs = <<[k |-> "chunk", text |-> "a"]>>
    /\ dec.ret = "a"

\* ---- generation ids
\* C29: two distinct SendMessageStreaming calls never get the same id.
C29_IdsNeverReused ==
    \A g1 \in Gens, g2 \in Gens :
        (Started(g1) /\ Started(g2) /\ g1 # g2) => wk[g1].id # wk[g2].id

\* ---- apply while the gate is held
\* Thread t makes the first step of _apply_rag_change.
ApplyAttempt(t) == th[t].pc = "apply" /\ th'[t] # th[t]

\* C30: an apply attempted while the gate is held returns at once with the
\* busy result, invokes no restart and leaves the gate, _rag_mode, the
\* client's enabled state and the pending request as they were; an apply
\* attempted while the gate is free takes it and invokes the restart.
C30_BusyApplyFailsFast ==
    [][\A t \in Threads :
          /\ (ApplyAttempt(t) /\ restarting) =>
                /\ th'[t].pc = Finished(t)
                /\ reqs'[th[t].req].outcome = "busy"
                /\ restartLog' = restartLog
                /\ restarting' = restarting
                /\ ragMode' = ragMode
                /\ ragEnabled' = ragEnabled
                /\ pending' = pending
          /\ (ApplyAttempt(t) /\ ~restarting) =>
                /\ th'[t].pc = "restart"
                /\ restarting'
                /\ Len(restartLog') = Len(restartLog) + 1]_vars

\* An apply of a change to another mode found the gate held and came back
\* busy; the gate has since been released, and the call that held it was
\* applied.
C30_Witness ==
    \E r \in Requests, r2 \in Requests :
        /\ reqs[r].outcome = "busy"
        /\ RestartsFor(r) = {}
        /\ reqs[r].mode # ragMode
        /\ reqs[r2].outcome = "applied"
        /\ ~restarting

\* C31: the content callback is never called with the empty string.
C31_EmptyContentNotEmitted ==
    (Called /\ dec.cc) =>
        \A i \in 1..Len(dec.res.cbs) :
            dec.res.cbs[i].k = "chunk" => dec.res.cbs[i].text # ""

\* ---- a stop request that matches no running generation
\* StopGeneration call k was made before generation g was started, while no
\* worker was running.
MadeBefore(k, g) == stops[k].latest < g /\ ~stops[k].running

\* Generation g was started while no other worker was running, was not
\* superseded, ran to the terminal marker, the store did not fail, and
\* everything was delivered.
RanToEnd(g) ==
    /\ Started(g) /\ ~Superseded(g) /\ wk[g].alone
    /\ wk[g].pc = "done" /\ wk[g].how = "end"
    /\ StoreWorked(g)
    /\ Quiescent

\* The deltas of g were delivered and its full response was stored.
DeliveredAndStored(g) ==
    /\ ContentSignals(g) = ExpectedSignals(g)
    /\ \E i \in StoreCalls(g) : store[i].resp = wk[g].full

\* C32: StopGeneration calls made while no generation was running do not
\* affect a generation started afterwards: its deltas are delivered, its
\* response is stored and status ends as "ready".
C32_StaleStopHasNoEffect ==
    \A g \in Gens :
        (stops # <<>> /\ (\A k \in 1..Len(stops) : MadeBefore(k, g)) /\ RanToEnd(g)) =>
            /\ DeliveredAndStored(g)
            /\ status = "ready"

\* StopGeneration was called while nothing ran; the generation started next
\* delivered its content delta and stored its response.
C32_Witness ==
    \E g \in Gens :
        /\ stops # <<>> /\ \A k \in 1..Len(stops) : MadeBefore(k, g)
        /\ RanToEnd(g)
        /\ wk[g].deltas # <<>>
        /\ DeliveredAndStored(g)
        /\ status = "ready"

\* ---- error recovery
\* The worker of generation h ended in the except path.
Failed(h) == wk[h].pc = "done" /\ \E i \in StoreCalls(h) : ~store[i].ok

\* No StopGeneration call was made once g was started.
NeverStopped(g) == \A k \in 1..Len(stops) : stops[k].latest < g

\* C33: a generation started after the worker of an earlier one failed with
\* an exception runs normally: its deltas are delivered, its response is
\* stored, StreamingComplete is emitted for it and status ends as "ready".
C33_RecoversAfterFailure ==
    \A g \in Gens :
        ((\E h \in 1..(g - 1) : Failed(h)) /\ NeverStopped(g) /\ RanToEnd(g)) =>
            /\ DeliveredAndStored(g)
            /\ CompleteEmittedBy(g, Len(signals))
            /\ status = "ready"

\* The first generation failed in the store; the second, started after it,
\* delivered its content delta and stored its response.
C33_Witness ==
    \E g \in Gens :
        /\ \E h \in 1..(g - 1) : Failed(h)
        /\ NeverStopped(g) /\ RanToEnd(g)
        /\ wk[g].deltas # <<>>
        /\ DeliveredAndStored(g)
        /\ CompleteEmittedBy(g, Len(signals))

\* ---- the client's reference to the response
\* A streaming call of some generation is in progress.
CallInProgress == \E g \in Gens : wk[g].pc \in {"connect", "read", "cb", "emit"}

\* A StopGeneration handler runs from start to end in this step.
StopStep == Len(stops') = Len(stops) + 1

\* C34: stop_current_generation returns with _current_request None, also
\* when closing the response raises, and _current_request is None whenever
\* no streaming call is in progress.
C34_RequestClearedOnEveryPath ==
    /\ [](~CallInProgress => llmReq = None)
    /\ [][StopStep => (llmReq' = None /\ th'[MainT].pc = "idle" /\ status' = "ready")]_vars

\* StopGeneration was called while a response was referenced and closing it
\* raised; the reference is None, and the worker has since ended.
C34_Witness ==
    \E k \in 1..Len(stops) :
        /\ stops[k].req # None
        /\ ~stops[k].closeOk
        /\ conn[stops[k].req] = "open"
        /\ wk[stops[k].req].pc = "done"
        /\ llmReq = None

\* ---- the debounce timer
TimerPending(i) == th[i].pc \in {"armed", "due"}
PendingTimers == {i \in Timers : TimerPending(i)}

\* C35: at most one debounce timer is pending at any time; a cancelled timer
\* never runs its request; cleanup leaves no pending timer.
C35_AtMostOneTimerPending ==
    /\ [](Cardinality(PendingTimers) <= 1)
    /\ [][\A i \in Timers : th[i].pc = "cancelled" => th'[i].pc = "cancelled"]_vars
    /\ [][(th[MainT].pc # "exited" /\ th'[MainT].pc = "exited")
              => \A i \in Timers : th'[i].pc \notin {"armed", "due"}]_vars

\* ---- enabling without a database
\* A SetRagEnabled(True, mode) call arrives in this step and finds no database.
EnableWithoutDatabase ==
    /\ Len(reqs') = Len(reqs) + 1
    /\ reqs'[Len(reqs')].en /\ ~reqs'[Len(reqs')].db

\* C36: SetRagEnabled(True, mode) without a RAG database fails and changes
\* nothing: no restart, gate not taken, pending request and timer untouched.
C36_NoDatabaseRejectedUnchanged ==
    [][EnableWithoutDatabase =>
          /\ reqs'[Len(reqs')].outcome \in {"no_db", "in_progress"}
          /\ th' = th
          /\ UNCHANGED <<restarting, pending, timerRef, ragMode, ragEnabled, restartLog>>]_vars

\* A call was rejected for the missing database while an earlier call's
\* debounce timer was pending; the timer is still pending and referenced.
C36_Witness ==
    \E r \in 1..Len(reqs), i \in Timers :
        /\ reqs[r].outcome = "no_db"
        /\ th[i].pc \in {"armed", "due"}
        /\ th[i].req < r
        /\ timerRef = i
        /\ ~restarting

\* ---- RAG indexing
\* A SetRAGConfig / ReindexRAG call arrives in this step.
IdxCallStep == Len(idx'.calls) = Len(idx.calls) + 1

OlderEnded(a, b) ==
    /\ a < b /\ Started(b) /\ ~wk[b].alone /\ ~Superseded(b)
    /\ wk[a].pc = "done"
    /\ stops = <<>>

\* The worker of generation b is between its start and the end of its stream.
Streaming(b) == wk[b].pc \in {"new", "connect", "read", "cb", "emit"}

\* C38: the end of an older generation's worker leaves the newer generation
\* current while it streams; once it has run to the end, its deltas were
\* delivered and its full response was stored.
C38_NewerUnaffectedByOlder ==
    \A a, b \in Gens : OlderEnded(a, b) =>
        /\ Streaming(b) => cur = wk[b].id
        /\ (wk[b].pc = "done" /\ wk[b].how = "end" /\ StoreWorked(b) /\ Quiescent)
              => DeliveredAndStored(b)

\* ---- restarts from every origin
\* _restart_ramalama_service is in progress, called by _apply_rag_change.
ApplyRestarts == {t \in Threads : th[t].pc = "restart"}
\* The same, called by SetRAGConfig (line 993) or its thread (line 1048).
IndexingRestarts ==
    (IF th[MainT].pc = "idxRestart" THEN {MainT} ELSE {})
        \cup {k \in IdxThreads : idx.thr[k].pc = "restart"}

\* C39: a restart made for RAG indexing is never in progress together with
\* one made by _apply_rag_change, nor with another of its kind, nor while a
\* generation's backend call is in flight.
C39_NoRestartsOverlap ==
    IndexingRestarts # {} =>
        /\ ApplyRestarts = {}
        /\ Cardinality(IndexingRestarts) = 1
        /\ ~CallInProgress

\* ---- what is stored
\* The content deltas decoded for generation g so far, concatenated.
DecodedContent(g) == Concat(OfKind(wk[g].made, "chunk"))

\* C40: the response every successful add_conversation call stores for a
\* generation is the concatenation of the content deltas decoded from the
\* backend for it.
C40_StoredIsDecodedContent ==
    \A i \in 1..Len(store) : store[i].ok => store[i].resp = DecodedContent(store[i].g)

====
